---- MODULE Spec2Model ----
(***************************************************************************)
(* A model of the remote-execution client of manimgenie                    *)
(* (src/manimgenie/sessionpythonrepltool.py): the access token provider,   *)
(* the construction of SessionsPythonREPLTool instances, and the methods   *)
(* createfile, execute, _run and download_file, each a blocking sequence   *)
(* of HTTP round trips against the session pool.  Time is counted in       *)
(* minutes and passes between the steps of a call.                         *)
(***************************************************************************)
EXTENDS Integers, Sequences, FiniteSets, TLC

VARIABLES
    now,              \* the clock, in minutes (datetime.now)
    access_token,     \* the token cached in the provider's closure, or None
    acquisitions,     \* how many times credential.get_token was called
    tokcall,          \* the last call of access_token_provider, as observed
    class_session_id, \* the class attribute session_id, drawn once
    clients,          \* the instances constructed so far
    run,              \* the _run call in progress, or None
    frame,            \* the method waiting for an HTTP response, or None
    wire,             \* the requests sent during the current top-level call
    resps,            \* the responses received, resps[i] answering wire[i]
    done,             \* the method calls completed in the current top-level call
    local_files,      \* the file download_file wrote in the current call, or None
    sample,           \* a text handed to one of the extraction functions, or None
    extracted,        \* what the extraction function returned for it, or None
    handlers,         \* the chat messages being handled (app.py), each at its step
    sessionpoolurl    \* the module variable sessionpoolurl of app.py

vars == <<now, access_token, acquisitions, tokcall, class_session_id, clients,
          run, frame, wire, resps, done, local_files, sample, extracted, handlers,
          sessionpoolurl>>

\* the state of the extraction functions and of the chat handlers
appvars == <<sample, extracted, handlers, sessionpoolurl>>

(***************************************************************************)
(* Bounds of the model.                                                    *)
(***************************************************************************)
MaxTime == 2
MaxClients == 3
MaxLifetime == 7
MaxParts == 2
MaxLines == 3

(***************************************************************************)
(* Program constants.                                                      *)
(***************************************************************************)
RefreshWindow == 5

(***************************************************************************)
(* Python values.                                                          *)
(***************************************************************************)
None == [py |-> "None"]
PyTrue == [py |-> "bool", v |-> TRUE]
PyStr(s) == [py |-> "str", v |-> s]
PyDict(d) == [py |-> "dict", v |-> d]
PyBytes(b) == [py |-> "bytes", v |-> b]
PyTuple(a, b) == [py |-> "tuple", v |-> <<a, b>>]
HTTPError(resp) == [py |-> "HTTPError", response |-> resp]
ValueError == [py |-> "ValueError", v |-> "pool_management_endpoint is not set"]
JSONDecodeError == [py |-> "JSONDecodeError"]
IndexError == [py |-> "IndexError", v |-> "list index out of range"]

\* an `if` that takes every value for true
Truthy_Always(x) == TRUE

\* the truth value of x in an `if`
Truthy(x) == x.py = "bool" /\ x.v

(***************************************************************************)
(* Inputs: the values the environment supplies.                            *)
(***************************************************************************)
UUIDs == {"6f1c", "9b2e"}
ExplicitSessionIds == {"a b"}
Endpoints == {"", "https://pool"}
Lifetimes == (RefreshWindow + 1)..MaxLifetime
Statuses == {200, 204, 404, 500, 503}
JsonSuccess == "{\"status\": \"success\", \"output\": \"ok\"}"
JsonError == "{\"status\": \"error\", \"message\": \"boom\"}"
Contents == {JsonSuccess, JsonError}
Codes == { <<"c","l","a","s","s"," ","F",":">>, <<"x","=","1">>,
           <<"c","l","a","s","s","y","=","1">> }
RemotePaths == { <<"'","v",".","m","p","4","'">>, <<"v",".","m","p","4">> }
LocalPaths == {"out.mp4"}

(***************************************************************************)
(* Strings the methods build.  A string is a sequence of characters.       *)
(***************************************************************************)
Whitespace == {" ", "\n", "\t"}
WordChars == {"a","b","c","h","i","l","m","n","o","p","q","s","u","v","x","y",
              "F","G","_","1","4"}
ClassKeyword == <<"c","l","a","s","s">>
DotPy == <<".","p","y">>
DotMp4 == <<".","m","p","4">>
Newline == <<"\n">>
ManimQh == <<"m","a","n","i","m"," ","-","q","h"," ">>
Space == <<" ">>
DashO == <<" ","-","o"," ">>

\* the index of the first character at or after i that is not in S
\* (Len(s) + 1 when there is none)
RECURSIVE SkipWhile(_, _, _)
SkipWhile(s, i, S) ==
    IF i <= Len(s) /\ s[i] \in S THEN SkipWhile(s, i + 1, S) ELSE i

\* the pattern class\s*(\w+), which asks for no whitespace after the keyword
MatchClassAt_OptionalSpace(s, i) ==
    IF i + 4 <= Len(s) /\ SubSeq(s, i, i + 4) = ClassKeyword
    THEN LET w == SkipWhile(s, i + 5, Whitespace)
             e == SkipWhile(s, w, WordChars)
         IN IF e > w THEN e - 1 ELSE 0
    ELSE 0

\* class\s+(\w+) matched at position i: the end of the match, or 0
MatchClassAt(s, i) ==
    IF i + 5 <= Len(s) /\ SubSeq(s, i, i + 4) = ClassKeyword
                       /\ s[i + 5] \in Whitespace
    THEN LET w == SkipWhile(s, i + 5, Whitespace)
             e == SkipWhile(s, w, WordChars)
         IN IF e > w THEN e - 1 ELSE 0
    ELSE 0

\* a search that returns the last match instead of the first
SearchClassName_LastMatch(s) ==
    LET hits == {i \in 1..Len(s) : MatchClassAt(s, i) > 0}
    IN IF hits = {} THEN None
       ELSE LET i == CHOOSE h \in hits : \A g \in hits : h >= g
                w == SkipWhile(s, i + 5, Whitespace)
            IN PyStr(SubSeq(s, w, MatchClassAt(s, i)))

\* re.search(r'class\s+(\w+)', python_code): group(1) of the leftmost match,
\* or None when nothing matches
SearchClassName(s) ==
    LET hits == {i \in 1..Len(s) : MatchClassAt(s, i) > 0}
    IN IF hits = {} THEN None
       ELSE LET i == CHOOSE h \in hits : \A g \in hits : h <= g
                w == SkipWhile(s, i + 5, Whitespace)
            IN PyStr(SubSeq(s, w, MatchClassAt(s, i)))

\* remote_file_path.replace("'", "")
StripQuotes(path) == SelectSeq(path, LAMBDA ch : ch # "'")

\* pyfile + "\n" + pythoncode
CreateBody(scene_name, pythoncode) == scene_name \o DotPy \o Newline \o pythoncode

\* "manim -qh " + scene_name + ".py " + scene_name + " -o " + scene_name + ".mp4"
GenerateCommand(scene_name) ==
    ManimQh \o scene_name \o DotPy \o Space \o scene_name \o DashO
            \o scene_name \o DotMp4

\* urllib.parse.quote on the session identifiers of the model
Quote(sid) == IF sid = "a b" THEN "a%20b" ELSE sid

\* a _build_url that does not check that the endpoint is set
BuildUrl_Unchecked(self, path) ==
    [py |-> "url", base |-> self.pool_management_endpoint \o "/", path |-> path,
     separator |-> "?", query |-> <<"identifier", Quote(self.session_id)>>]

\* _build_url: None stands for the ValueError it raises
BuildUrl(self, path) ==
    LET ep == self.pool_management_endpoint
    IN IF ep = "" THEN None
       ELSE [py |-> "url",
             base |-> IF ep = "https://pool" THEN "https://pool/" ELSE ep,
             path |-> path,
             separator |-> "?",
             query |-> <<"identifier", Quote(self.session_id)>>]

\* response.raise_for_status() raises on 4xx and 5xx
RaisesForStatus(status_code) == status_code \in 400..599

\* response.json()
Json(content) ==
    IF content = JsonSuccess
    THEN PyDict([status |-> "success", output |-> "ok"])
    ELSE IF content = JsonError
    THEN PyDict([status |-> "error", message |-> "boom"])
    ELSE JSONDecodeError

\* dict.get(key)
Get(d, key) == IF key \in DOMAIN d.v THEN PyStr(d.v[key]) ELSE None

IsNone(x) == x.py = "None"

(***************************************************************************)
(* The access token provider (a closure over access_token).                *)
(***************************************************************************)
\* a provider that refreshes only a token already expired
NeedsRefresh_OnlyWhenExpired(tok, t) ==
    IsNone(tok) \/ tok.expires_on < t

\* the condition under which access_token_provider acquires a token
NeedsRefresh(tok, t) ==
    IsNone(tok) \/ tok.expires_on < t + RefreshWindow

\* credential.get_token(...): a new token, valid for `life` minutes
CredentialGetToken(life) ==
    [py |-> "AccessToken", token |-> acquisitions + 1, expires_on |-> now + life]

\* the AccessToken held after a call of access_token_provider
ProviderResult(life) ==
    IF NeedsRefresh(access_token, now) THEN CredentialGetToken(life)
    ELSE access_token

\* a call of access_token_provider, or none (called = FALSE)
access_token_provider(called, life) ==
    IF called
    THEN /\ access_token' = ProviderResult(life)
         /\ acquisitions' = IF NeedsRefresh(access_token, now)
                            THEN acquisitions + 1 ELSE acquisitions
         /\ tokcall' = [py |-> "call", at |-> now, cached |-> access_token,
                        before |-> acquisitions,
                        returned |-> ProviderResult(life).token]
    ELSE UNCHANGED <<access_token, acquisitions, tokcall>>

(***************************************************************************)
(* The methods of SessionsPythonREPLTool.  A method that sends a request   *)
(* leaves a frame behind and resumes when the response arrives.            *)
(***************************************************************************)
USER_AGENT == "langchain-azure-dynamic-manim/custom (Language=Python)"

PathOf(op) ==
    CASE op = "createfile" -> "manim/create"
      [] op = "execute" -> "manim/generate"
      [] op = "download_file" -> "manim/get_video"

\* the headers each method sends
Headers(op, token) ==
    IF op = "download_file"
    THEN [Authorization |-> <<"Bearer", token>>, UserAgent |-> USER_AGENT]
    ELSE [Authorization |-> <<"Bearer", token>>,
          ContentType |-> "application/json", UserAgent |-> USER_AGENT]

\* requests.post as it goes on the wire, with the time it is sent and the
\* expiry of the token it carries
Sent(request, expires_on) ==
    [request |-> request, sent_at |-> now, token_expires_on |-> expires_on]

Entry(op, kind, value, first, last) ==
    [op |-> op, kind |-> kind, value |-> value, first |-> first, last |-> last]

\* the first lines of createfile, execute and download_file, up to and
\* including the first requests.post: n requests are already on the wire
Begin(op, self, payload, local, life, n) ==
    LET tok == ProviderResult(life)
        url == BuildUrl(self, PathOf(op))
        request == [url |-> url, headers |-> Headers(op, tok.token),
                    payload |-> payload]
    IN IF IsNone(url)
       THEN [frame |-> None, sent |-> <<>>,
             finished |-> <<Entry(op, "raise", ValueError, n + 1, n)>>]
       ELSE [frame |-> [py |-> "frame", op |-> op, request |-> request,
                        token_expires_on |-> tok.expires_on, attempt |-> 1,
                        first_error |-> None, local |-> local, first |-> n + 1],
             sent |-> <<Sent(request, tok.expires_on)>>,
             finished |-> <<>>]

Step(act, value) == [act |-> act, value |-> value]

\* a createfile that takes every status raise_for_status() accepts for success
CreatefileStep_TrueOnAnySuccess(resp) ==
    IF RaisesForStatus(resp.status_code) THEN Step("raise", HTTPError(resp))
    ELSE Step("return", PyTrue)

\* createfile after requests.post
CreatefileStep(resp) ==
    IF RaisesForStatus(resp.status_code) THEN Step("raise", HTTPError(resp))
    ELSE IF resp.status_code = 200 THEN Step("return", PyTrue)
    ELSE Step("return", None)

\* response.json() at the end of execute
ReturnJson(resp) ==
    IF Json(resp.content).py = "dict" THEN Step("return", Json(resp.content))
    ELSE Step("raise", JSONDecodeError)

\* an execute that never retries
ExecuteRetries_Never(status_code) == FALSE

\* an execute that retries on every server error
ExecuteRetries_AnyServerError(status_code) == status_code >= 500

\* whether execute sends the request again after a failure
ExecuteRetries(status_code) == status_code = 500

\* execute after requests.post (attempt 1) and after the retry (attempt 2)
ExecuteStep(attempt, resp) ==
    IF ~RaisesForStatus(resp.status_code) THEN ReturnJson(resp)
    ELSE IF attempt = 1 /\ ExecuteRetries(resp.status_code)
         THEN Step("retry", HTTPError(resp))
         ELSE Step("raise", HTTPError(resp))

\* a download_file that retries on every failure
DownloadRetries_AnyFailure(status_code) == TRUE

\* whether download_file sends the request again after a failure
DownloadRetries(status_code) == status_code = 404

\* a download_file that does not check the status of the second response
DownloadAfterRetry_Unchecked(first_error, resp) ==
    Step("return", PyBytes(resp.content))

\* download_file after the retry: raise_for_status() on the second response,
\* then `raise e`, the error of the first response
DownloadAfterRetry(first_error, resp) ==
    IF RaisesForStatus(resp.status_code) THEN Step("raise", HTTPError(resp))
    ELSE Step("raise", first_error)

\* download_file after requests.post (attempt 1) and after the retry
DownloadStep(attempt, first_error, resp) ==
    IF attempt = 1
    THEN IF ~RaisesForStatus(resp.status_code)
         THEN Step("return", PyBytes(resp.content))
         ELSE IF DownloadRetries(resp.status_code)
              THEN Step("retry", HTTPError(resp))
              ELSE Step("raise", HTTPError(resp))
    ELSE DownloadAfterRetry(first_error, resp)

MethodStep(f, resp) ==
    CASE f.op = "createfile" -> CreatefileStep(resp)
      [] f.op = "execute" -> ExecuteStep(f.attempt, resp)
      [] f.op = "download_file" -> DownloadStep(f.attempt, f.first_error, resp)

\* a _run that reports the output field whatever the status
RunResult_AlwaysOutput(response) ==
    PyTuple(Get(response, "output"), response)

\* the end of _run, once execute has returned `response`
RunResult(response) ==
    IF Get(response, "status") = PyStr("success")
    THEN PyTuple(Get(response, "output"), response)
    ELSE PyTuple(Get(response, "message"), response)

\* _run resumed with the outcome `e` of the method it called: what it does
\* next, given that n requests are on the wire
RunResume(r, e, life, n) ==
    IF e.kind = "raise"
    THEN [frame |-> None, sent |-> <<>>, provider |-> FALSE,
          finished |-> <<e, Entry("_run", "raise", e.value, r.first, n)>>]
    ELSE IF e.op = "createfile"
    THEN IF Truthy(e.value)
         THEN LET b == Begin("execute", clients[r.self],
                             [command |-> GenerateCommand(r.scene_name)],
                             None, life, n)
              IN [frame |-> b.frame, sent |-> b.sent, provider |-> TRUE,
                  finished |-> <<e>> \o b.finished \o
                      (IF IsNone(b.frame)
                       THEN <<Entry("_run", "raise", ValueError, r.first, n)>>
                       ELSE <<>>)]
         ELSE [frame |-> None, sent |-> <<>>, provider |-> FALSE,
               finished |-> <<e, Entry("_run", "return",
                                 PyTuple(PyStr("Error creating file"), PyDict(<<>>)),
                                 r.first, n)>>]
    ELSE [frame |-> None, sent |-> <<>>, provider |-> FALSE,
          finished |-> <<e, Entry("_run", "return", RunResult(e.value), r.first, n)>>]

(***************************************************************************)
(* The extraction functions.                                               *)
(***************************************************************************)
\* the backtick character, which a TLA+ string cannot hold
Backtick == "backtick"
Fence == <<Backtick, Backtick, Backtick>>
TagChars == WordChars \cup {"+", "-"}

IsFenceAt(s, i) == i + 2 <= Len(s) /\ SubSeq(s, i, i + 2) = Fence

\* the first index at or after i where ``` begins, or 0
NextFence(s, i) ==
    LET at == {k \in i..Len(s) : IsFenceAt(s, k)}
    IN IF at = {} THEN 0 ELSE CHOOSE k \in at : \A g \in at : k <= g

\* ```(?:\s*([\w\+\-]+))?\n([\s\S]*?)``` matched at position i: the two
\* groups and the index of the last character matched, or None.  The
\* optional group is tried first: \s* runs over newlines too.
MatchBlockAt(s, i) ==
    IF ~IsFenceAt(s, i) THEN None
    ELSE LET w == SkipWhile(s, i + 3, Whitespace)
             e == SkipWhile(s, w, TagChars)
             tagged == e > w /\ e <= Len(s) /\ s[e] = "\n"
             body == IF tagged THEN e + 1
                     ELSE IF i + 3 <= Len(s) /\ s[i + 3] = "\n" THEN i + 4
                     ELSE 0
             close == IF body = 0 THEN 0 ELSE NextFence(s, body)
         IN IF close = 0 THEN None
            ELSE [py |-> "match",
                  group1 |-> IF tagged THEN SubSeq(s, w, e - 1) ELSE <<>>,
                  group2 |-> SubSeq(s, body, close - 1),
                  end |-> close + 2]

\* pattern.findall and the loop over its matches, from position pos on
RECURSIVE FindAllBlocks(_, _)
FindAllBlocks(s, pos) ==
    LET hits == {i \in pos..Len(s) : ~IsNone(MatchBlockAt(s, i))}
    IN IF hits = {} THEN <<>>
       ELSE LET i == CHOOSE h \in hits : \A g \in hits : h <= g
                m == MatchBlockAt(s, i)
            IN <<[code |-> m.group2, language |-> m.group1]>>
               \o FindAllBlocks(s, m.end + 1)

\* extract_markdown_code_blocks(markdown_text)
extract_markdown_code_blocks(markdown_text) == FindAllBlocks(markdown_text, 1)

(***************************************************************************)
(* The state machine.                                                      *)
(***************************************************************************)
\* nothing extracted, no chat message handled
AppInit ==
    /\ sample = None
    /\ extracted = None
    /\ handlers = <<>>
    /\ sessionpoolurl = ""

Idle == IsNone(frame) /\ IsNone(run)

Init ==
    /\ now = 0
    /\ access_token = None
    /\ acquisitions = 0
    /\ tokcall = None
    /\ class_session_id \in UUIDs
    /\ clients = <<>>
    /\ run = None
    /\ frame = None
    /\ wire = <<>>
    /\ resps = <<>>
    /\ done = <<>>
    /\ local_files = None
    /\ AppInit

\* datetime.now advances
Tick ==
    /\ now < MaxTime
    /\ now' = now + 1
    /\ UNCHANGED <<access_token, acquisitions, tokcall, class_session_id,
                   clients, run, frame, wire, resps, done, local_files>>
    /\ UNCHANGED appvars

\* SessionsPythonREPLTool(pool_management_endpoint=ep[, session_id=sid]):
\* sid = None leaves the field at the class attribute
Construct(ep, sid) ==
    /\ Len(clients) < MaxClients
    /\ clients' = Append(clients,
           [pool_management_endpoint |-> ep,
            session_id |-> IF IsNone(sid) THEN class_session_id ELSE sid.v,
            explicit |-> ~IsNone(sid)])
    /\ UNCHANGED <<now, access_token, acquisitions, tokcall, class_session_id,
                   run, frame, wire, resps, done, local_files>>
    /\ UNCHANGED appvars

\* a top-level call of access_token_provider()
GetToken(life) ==
    /\ Idle
    /\ access_token_provider(TRUE, life)
    /\ wire' = <<>>
    /\ resps' = <<>>
    /\ done' = <<Entry("access_token_provider", "return",
                       PyStr(ProviderResult(life).token), 1, 0)>>
    /\ local_files' = None
    /\ UNCHANGED <<now, class_session_id, clients, run, frame>>
    /\ UNCHANGED appvars

\* a top-level call of createfile, execute or download_file on clients[c]
CallMethod(op, c, payload, local, life) ==
    /\ Idle
    /\ LET b == Begin(op, clients[c], payload, local, life, 0)
       IN /\ access_token_provider(TRUE, life)
          /\ frame' = b.frame
          /\ wire' = b.sent
          /\ done' = b.finished
    /\ resps' = <<>>
    /\ local_files' = None
    /\ UNCHANGED <<now, class_session_id, clients, run>>
    /\ UNCHANGED appvars

CallCreatefile(c, pythoncode, scene_name, life) ==
    CallMethod("createfile", c, CreateBody(scene_name, pythoncode), None, life)

CallExecute(c, scene_name, life) ==
    CallMethod("execute", c, [command |-> GenerateCommand(scene_name)], None, life)

CallDownloadFile(c, remote_file_path, local_file_path, life) ==
    CallMethod("download_file", c, [videofile |-> StripQuotes(remote_file_path)],
               local_file_path, life)

\* a call of _run(python_code) on clients[c], up to the first requests.post
CallRun(c, python_code, life) ==
    /\ Idle
    /\ resps' = <<>>
    /\ LET match == SearchClassName(python_code)
       IN IF IsNone(match)
          THEN /\ done' = <<Entry("_run", "return",
                                  PyStr("No class name found in the code"), 1, 0)>>
               /\ wire' = <<>>
               /\ access_token_provider(FALSE, life)
               /\ UNCHANGED <<run, frame>>
          ELSE LET b == Begin("createfile", clients[c],
                              CreateBody(match.v, python_code), None, life, 0)
               IN /\ access_token_provider(TRUE, life)
                  /\ frame' = b.frame
                  /\ wire' = b.sent
                  /\ IF IsNone(b.frame)
                     THEN /\ done' = b.finished \o
                                 <<Entry("_run", "raise", ValueError, 1, 0)>>
                          /\ run' = None
                     ELSE /\ done' = <<>>
                          /\ run' = [py |-> "run", self |-> c,
                                     python_code |-> python_code,
                                     scene_name |-> match.v, first |-> 1]
    /\ local_files' = None
    /\ UNCHANGED <<now, class_session_id, clients>>
    /\ UNCHANGED appvars

\* the session pool answers the request in flight and the waiting method
\* runs on: to its return or raise, or to its next requests.post
Respond(status_code, content, life) ==
    /\ ~IsNone(frame)
    /\ LET resp == [status_code |-> status_code, content |-> content]
           step == MethodStep(frame, resp)
           n == Len(wire)
           e == Entry(frame.op, step.act, step.value, frame.first, n)
       IN /\ resps' = Append(resps, resp)
          /\ local_files' =
                 IF frame.op = "download_file" /\ step.act = "return"
                    /\ ~IsNone(frame.local)
                 THEN [py |-> "file", path |-> frame.local.v, content |-> content]
                 ELSE local_files
          /\ IF step.act = "retry"
             THEN /\ wire' = Append(wire, Sent(frame.request, frame.token_expires_on))
                  /\ frame' = [frame EXCEPT !.attempt = 2, !.first_error = step.value]
                  /\ access_token_provider(FALSE, life)
                  /\ UNCHANGED <<run, done>>
             ELSE IF IsNone(run)
             THEN /\ frame' = None
                  /\ done' = Append(done, e)
                  /\ access_token_provider(FALSE, life)
                  /\ UNCHANGED <<run, wire>>
             ELSE LET r == RunResume(run, e, life, n)
                  IN /\ frame' = r.frame
                     /\ wire' = wire \o r.sent
                     /\ done' = done \o r.finished
                     /\ run' = IF IsNone(r.frame) THEN None ELSE run
                     /\ access_token_provider(r.provider, life)
    /\ UNCHANGED <<now, class_session_id, clients>>
    /\ UNCHANGED appvars

SceneNames == { <<"F">> }

\* the instances a process constructs
NextConstruct ==
    \E ep \in Endpoints, sid \in {None} \cup {PyStr(x) : x \in ExplicitSessionIds} :
        Construct(ep, sid)

SpecConstruct == Init /\ [][NextConstruct]_vars

\* one instance, constructed, and the calls made on it
InitCalls ==
    /\ now = 0
    /\ access_token = None
    /\ acquisitions = 0
    /\ tokcall = None
    /\ class_session_id \in UUIDs
    /\ \E ep \in Endpoints, sid \in {None} \cup {PyStr(x) : x \in ExplicitSessionIds} :
           clients = <<[pool_management_endpoint |-> ep,
                        session_id |-> IF IsNone(sid) THEN class_session_id ELSE sid.v,
                        explicit |-> ~IsNone(sid)]>>
    /\ run = None
    /\ frame = None
    /\ wire = <<>>
    /\ resps = <<>>
    /\ done = <<>>
    /\ local_files = None
    /\ AppInit

Next ==
    \/ Tick
    \/ \E life \in Lifetimes : GetToken(life)
    \/ \E c \in 1..Len(clients), code \in Codes, scene \in SceneNames,
          life \in Lifetimes : CallCreatefile(c, code, scene, life)
    \/ \E c \in 1..Len(clients), scene \in SceneNames, life \in Lifetimes :
           CallExecute(c, scene, life)
    \/ \E c \in 1..Len(clients), path \in RemotePaths,
          local \in {None} \cup {PyStr(x) : x \in LocalPaths}, life \in Lifetimes :
           CallDownloadFile(c, path, local, life)
    \/ \E c \in 1..Len(clients), code \in Codes, life \in Lifetimes :
           CallRun(c, code, life)
    \/ \E status_code \in Statuses, content \in Contents, life \in Lifetimes :
           Respond(status_code, content, life)

Spec == InitCalls /\ [][Next]_vars

(***************************************************************************)
(* The extraction functions applied to texts.  A markdown text is built    *)
(* from parts, prose or fenced blocks; a source code from lines.           *)
(***************************************************************************)
MarkdownParts ==
    { [kind |-> "prose", language |-> <<>>, code |-> <<"a">>],
      [kind |-> "block", language |-> <<>>, code |-> <<"x","\n","y","\n">>],
      [kind |-> "block", language |-> <<>>, code |-> <<"x","=","1","\n">>],
      [kind |-> "block", language |-> <<"p","y">>, code |-> <<"x","=","1","\n">>] }

CodeLines ==
    { [kind |-> "class", name |-> <<"F">>,
       text |-> <<"c","l","a","s","s"," ","F",":">>],
      [kind |-> "class", name |-> <<"G","o">>,
       text |-> <<"c","l","a","s","s"," "," ","G","o","(","x",")",":">>],
      [kind |-> "comment", name |-> <<"x">>,
       text |-> <<"#"," ","c","l","a","s","s"," ","x">>],
      [kind |-> "other", name |-> <<>>, text |-> <<"x","=","1">>] }

\* a fenced block as it is written: ```language, a newline, the code, ```
RenderPart(part) ==
    IF part.kind = "prose" THEN part.code
    ELSE Fence \o part.language \o Newline \o part.code \o Fence

\* the texts of items[from..], joined by newlines
RECURSIVE Join(_, _)
Join(items, from) ==
    IF from > Len(items) THEN <<>>
    ELSE IF from = Len(items) THEN items[from]
    ELSE items[from] \o Newline \o Join(items, from + 1)

RenderMarkdown(doc) == Join([i \in 1..Len(doc) |-> RenderPart(doc[i])], 1)

RenderCode(doc) == Join([i \in 1..Len(doc) |-> doc[i].text], 1)

Samples ==
    {[py |-> "markdown", doc |-> d] :
        d \in UNION {[1..n -> MarkdownParts] : n \in 0..MaxParts}}
    \cup {[py |-> "code", doc |-> d] :
        d \in UNION {[1..n -> CodeLines] : n \in 0..MaxLines}}

InitExtract ==
    /\ now = 0
    /\ access_token = None
    /\ acquisitions = 0
    /\ tokcall = None
    /\ class_session_id \in UUIDs
    /\ clients = <<>>
    /\ run = None
    /\ frame = None
    /\ wire = <<>>
    /\ resps = <<>>
    /\ done = <<>>
    /\ local_files = None
    /\ sample \in Samples
    /\ extracted = None
    /\ handlers = <<>>
    /\ sessionpoolurl = ""

\* extract_markdown_code_blocks(res)
ExtractCodeBlocks ==
    /\ sample.py = "markdown"
    /\ IsNone(extracted)
    /\ extracted' = [py |-> "list",
                     v |-> extract_markdown_code_blocks(RenderMarkdown(sample.doc))]
    /\ UNCHANGED <<now, access_token, acquisitions, tokcall, class_session_id,
                   clients, run, frame, wire, resps, done, local_files,
                   sample, handlers, sessionpoolurl>>

\* re.search(r'class\s+(\w+)', code), as _run and exec_step call it
ExtractSceneName ==
    /\ sample.py = "code"
    /\ IsNone(extracted)
    /\ extracted' = [py |-> "match", v |-> SearchClassName(RenderCode(sample.doc))]
    /\ UNCHANGED <<now, access_token, acquisitions, tokcall, class_session_id,
                   clients, run, frame, wire, resps, done, local_files,
                   sample, handlers, sessionpoolurl>>

NextExtract == ExtractCodeBlocks \/ ExtractSceneName

SpecExtract == InitExtract /\ [][NextExtract]_vars

(***************************************************************************)
(* The chat front-end (app.py).  Each chat message is handled by a         *)
(* coroutine of one event loop; repl.ainvoke runs _run in a worker thread, *)
(* so the requests of _run go out while the loop serves other messages,    *)
(* and download_file, called from the coroutine itself, holds the loop     *)
(* until it returns.  A caller may also invoke the tool's _run directly.   *)
(***************************************************************************)
HandlerIds == {"h1", "h2"}

\* what the generation service may answer to the question
Generations ==
    { [py |-> "generation", blocks |-> 0, class |-> FALSE,
       text |-> RenderMarkdown(<<[kind |-> "prose", language |-> <<>>,
                                  code |-> <<"a">>]>>)],
      [py |-> "generation", blocks |-> 1, class |-> FALSE,
       text |-> RenderMarkdown(<<[kind |-> "block", language |-> <<"p","y">>,
                                  code |-> <<"c","l","a","s","s","y","=","1","\n">>]>>)],
      [py |-> "generation", blocks |-> 1, class |-> TRUE,
       text |-> RenderMarkdown(<<[kind |-> "block", language |-> <<"p","y">>,
                                  code |-> <<"c","l","a","s","s"," ","F",":","\n">>]>>)] }

HandlerStart ==
    [pc |-> "idle", kind |-> "none", generation |-> None,
     python_code |-> None, self |-> 0, run |-> None, frame |-> None, sent |-> <<>>, ran |-> None, result |-> None]

InitApp ==
    /\ now = 0
    /\ access_token = None
    /\ acquisitions = 0
    /\ tokcall = None
    /\ class_session_id \in UUIDs
    /\ clients = <<>>
    /\ run = None
    /\ frame = None
    /\ wire = <<>>
    /\ resps = <<>>
    /\ done = <<>>
    /\ local_files = None
    /\ sample = None
    /\ extracted = None
    /\ handlers = [h \in HandlerIds |-> HandlerStart]
    /\ sessionpoolurl \in Endpoints

\* the event loop is not held by a download_file call
LoopFree == \A h \in HandlerIds : handlers[h].pc # "downloading"

\* SessionsPythonREPLTool(pool_management_endpoint=sessionpoolurl)
NewClient ==
    [pool_management_endpoint |-> sessionpoolurl,
     session_id |-> class_session_id, explicit |-> FALSE]

\* where a handler stands once _run has ended with outcome e: a chat handler
\* waits for the loop to resume it, a direct caller has its result
AfterRun(hd, e) ==
    IF hd.kind = "message"
    THEN [hd EXCEPT !.pc = "tool_done", !.run = None, !.frame = None, !.ran = e]
    ELSE [hd EXCEPT !.pc = IF e.kind = "raise" THEN "raised" ELSE "returned",
                    !.run = None, !.frame = None, !.ran = e, !.result = e.value]

\* _run(python_code) on the client just constructed, up to its first
\* requests.post, for the handler hd
StartRun(h, hd, python_code, life) ==
    LET match == SearchClassName(python_code)
        self == Len(clients) + 1
    IN /\ clients' = Append(clients, NewClient)
       /\ IF IsNone(match)
          THEN /\ handlers' = [handlers EXCEPT ![h] =
                      AfterRun([hd EXCEPT !.self = self],
                               Entry("_run", "return",
                                     PyStr("No class name found in the code"), 1, 0))]
               /\ access_token_provider(FALSE, life)
          ELSE LET b == Begin("createfile", NewClient,
                              CreateBody(match.v, python_code), None, life, 0)
               IN /\ access_token_provider(TRUE, life)
                  /\ handlers' = [handlers EXCEPT ![h] =
                         IF IsNone(b.frame)
                         THEN AfterRun([hd EXCEPT !.self = self],
                                       Entry("_run", "raise", ValueError, 1, 0))
                         ELSE [hd EXCEPT !.pc = "tool", !.self = self,
                                         !.frame = b.frame,
                                         !.sent = <<b.frame.request.url.path>>,
                                         !.run = [py |-> "run", self |-> self,
                                                  python_code |-> python_code,
                                                  scene_name |-> match.v,
                                                  first |-> 1]]]

\* on_message begins: chain.ainvoke is awaited
OnMessage(h) ==
    /\ handlers[h].pc = "idle"
    /\ LoopFree
    /\ handlers' = [handlers EXCEPT ![h].pc = "generating", ![h].kind = "message"]
    /\ UNCHANGED <<now, access_token, acquisitions, tokcall, class_session_id,
                   clients, run, frame, wire, resps, done, local_files,
                   sample, extracted, sessionpoolurl>>

\* chain.ainvoke returns res: on_message extracts the code blocks, takes the
\* first and awaits exec_step, which runs up to the start of _run
Generated(h, g, life) ==
    /\ handlers[h].pc = "generating"
    /\ LoopFree
    /\ LET hd == [handlers[h] EXCEPT !.generation = g]
           codeblock == extract_markdown_code_blocks(g.text)
       IN IF codeblock = <<>>
          THEN /\ handlers' = [handlers EXCEPT ![h] =
                      [hd EXCEPT !.pc = "raised", !.result = IndexError]]
               /\ UNCHANGED <<access_token, acquisitions, tokcall, clients>>
          ELSE IF IsNone(SearchClassName(codeblock[1].code))
          THEN /\ handlers' = [handlers EXCEPT ![h] =
                      [hd EXCEPT !.pc = "returned",
                                 !.python_code = PyStr(codeblock[1].code),
                                 !.result = PyStr("No class name found in the code")]]
               /\ UNCHANGED <<access_token, acquisitions, tokcall, clients>>
          ELSE StartRun(h, [hd EXCEPT !.python_code = PyStr(codeblock[1].code)],
                        codeblock[1].code, life)
    /\ UNCHANGED <<now, class_session_id, run, frame, wire, resps, done,
                   local_files, sample, extracted, sessionpoolurl>>

\* a caller constructs the tool and invokes _run(python_code) on it
ToolCall(h, python_code, life) ==
    /\ handlers[h].pc = "idle"
    /\ StartRun(h, [handlers[h] EXCEPT !.kind = "tool",
                                       !.python_code = PyStr(python_code)],
                python_code, life)
    /\ UNCHANGED <<now, class_session_id, run, frame, wire, resps, done,
                   local_files, sample, extracted, sessionpoolurl>>

\* the session pool answers the request of a _run in its worker thread
ToolRespond(h, status_code, content, life) ==
    /\ handlers[h].pc = "tool"
    /\ LET hd == handlers[h]
           resp == [status_code |-> status_code, content |-> content]
           step == MethodStep(hd.frame, resp)
           n == Len(hd.sent)
       IN IF step.act = "retry"
          THEN /\ handlers' = [handlers EXCEPT ![h] =
                      [hd EXCEPT !.frame = [hd.frame EXCEPT !.attempt = 2,
                                                            !.first_error = step.value],
                                 !.sent = Append(hd.sent, hd.frame.request.url.path)]]
               /\ access_token_provider(FALSE, life)
          ELSE LET r == RunResume(hd.run,
                                  Entry(hd.frame.op, step.act, step.value,
                                        hd.frame.first, n),
                                  life, n)
               IN /\ access_token_provider(r.provider, life)
                  /\ handlers' = [handlers EXCEPT ![h] =
                         IF IsNone(r.frame)
                         THEN AfterRun(hd, r.finished[Len(r.finished)])
                         ELSE [hd EXCEPT !.frame = r.frame,
                                         !.sent = Append(hd.sent,
                                                         r.frame.request.url.path)]]
    /\ UNCHANGED <<now, class_session_id, clients, run, frame, wire, resps, done,
                   local_files, sample, extracted, sessionpoolurl>>

\* exec_step resumes after `await repl.ainvoke(...)`: the exception of _run
\* propagates, or the second generation request is awaited
ResumeAfterRun(h) ==
    /\ handlers[h].pc = "tool_done"
    /\ LoopFree
    /\ handlers' = [handlers EXCEPT ![h] =
           IF handlers[h].ran.kind = "raise"
           THEN [handlers[h] EXCEPT !.pc = "raised", !.result = handlers[h].ran.value]
           ELSE [handlers[h] EXCEPT !.pc = "asking_path"]]
    /\ UNCHANGED <<now, access_token, acquisitions, tokcall, class_session_id,
                   clients, run, frame, wire, resps, done, local_files,
                   sample, extracted, sessionpoolurl>>

\* the generation service answers genpromptfile and exec_step calls
\* repl.download_file(remote_file_path=genpromptfile)
PathGenerated(h, genpromptfile, life) ==
    /\ handlers[h].pc = "asking_path"
    /\ LoopFree
    /\ LET hd == handlers[h]
           b == Begin("download_file", clients[hd.self],
                      [videofile |-> StripQuotes(genpromptfile)], None, life,
                      Len(hd.sent))
       IN /\ access_token_provider(TRUE, life)
          /\ handlers' = [handlers EXCEPT ![h] =
                 IF IsNone(b.frame)
                 THEN [hd EXCEPT !.pc = "raised", !.result = ValueError]
                 ELSE [hd EXCEPT !.pc = "downloading", !.frame = b.frame,
                                 !.sent = Append(hd.sent, b.frame.request.url.path)]]
    /\ UNCHANGED <<now, class_session_id, clients, run, frame, wire, resps, done,
                   local_files, sample, extracted, sessionpoolurl>>

\* the session pool answers the get_video request: download_file retries,
\* raises, or returns and exec_step writes the video and returns its name
DownloadRespond(h, status_code, content) ==
    /\ handlers[h].pc = "downloading"
    /\ LET hd == handlers[h]
           resp == [status_code |-> status_code, content |-> content]
           step == MethodStep(hd.frame, resp)
       IN handlers' = [handlers EXCEPT ![h] =
              CASE step.act = "retry" ->
                       [hd EXCEPT !.frame = [hd.frame EXCEPT !.attempt = 2,
                                                             !.first_error = step.value],
                                  !.sent = Append(hd.sent, hd.frame.request.url.path)]
                [] step.act = "raise" ->
                       [hd EXCEPT !.pc = "raised", !.frame = None,
                                  !.result = step.value]
                [] step.act = "return" ->
                       [hd EXCEPT !.pc = "returned", !.frame = None,
                                  !.result = PyStr(<<clients[hd.self].session_id,
                                                     ".mp4">>)]]
    /\ UNCHANGED <<now, access_token, acquisitions, tokcall, class_session_id,
                   clients, run, frame, wire, resps, done, local_files,
                   sample, extracted, sessionpoolurl>>

NextApp ==
    \/ \E h \in HandlerIds : OnMessage(h)
    \/ \E h \in HandlerIds, g \in Generations, life \in Lifetimes :
           Generated(h, g, life)
    \/ \E h \in HandlerIds, code \in Codes, life \in Lifetimes :
           ToolCall(h, code, life)
    \/ \E h \in HandlerIds, status_code \in Statuses, content \in Contents,
          life \in Lifetimes : ToolRespond(h, status_code, content, life)
    \/ \E h \in HandlerIds : ResumeAfterRun(h)
    \/ \E h \in HandlerIds, path \in RemotePaths, life \in Lifetimes :
           PathGenerated(h, path, life)
    \/ \E h \in HandlerIds, status_code \in Statuses, content \in Contents :
           DownloadRespond(h, status_code, content)

SpecApp == InitApp /\ [][NextApp]_vars

(***************************************************************************)
(* Properties.  A completed call d covers the requests wire[d.first] to    *)
(* wire[d.last] and their responses.                                       *)
(***************************************************************************)
Completed(op) ==
    {d \in {done[i] : i \in 1..Len(done)} : d.op = op /\ d.first <= d.last}

Failure(resp) == resp.status_code >= 400

InRunCall == ~IsNone(run) \/ \E i \in 1..Len(done) : done[i].op = "_run"

Generates == {i \in 1..Len(wire) : wire[i].request.url.path = "manim/generate"}

\* C1: download_file whose first response is 404 and whose retry is answered
\* 200 returns the bytes of the second response.
C1_DownloadReturnsRetriedBytes ==
    \A d \in Completed("download_file") :
        (/\ d.last = d.first + 1
         /\ resps[d.first].status_code = 404
         /\ resps[d.last].status_code = 200)
        => /\ d.kind = "return"
           /\ d.value = PyBytes(resps[d.last].content)

\* C2: two instances constructed without an explicit session id have
\* different session identifiers.
C2_DefaultSessionIdsDiffer ==
    \A i, j \in 1..Len(clients) :
        (i # j /\ ~clients[i].explicit /\ ~clients[j].explicit)
        => clients[i].session_id # clients[j].session_id

\* C3: execute whose first response is 500 sends its request exactly once
\* more, and when that retry is answered 200 it returns the parsed JSON of
\* the second response.
C3_ExecuteRetriesOnceOn500 ==
    \A d \in Completed("execute") :
        resps[d.first].status_code = 500
        => /\ d.last = d.first + 1
           /\ wire[d.last].request = wire[d.first].request
           /\ resps[d.last].status_code = 200
              => /\ d.kind = "return"
                 /\ d.value = Json(resps[d.last].content)

C3_Witness ==
    \E d \in Completed("execute") :
        /\ resps[d.first].status_code = 500
        /\ d.last = d.first + 1
        /\ resps[d.last].status_code = 200
        /\ d.kind = "return"

\* C4: execute whose first response is a failure other than 500 raises that
\* failure after one request; execute sends a second request if and only if
\* its first response is 500.
C4_ExecuteRaisesOnOtherFailure ==
    /\ \A d \in Completed("execute") :
           /\ (Failure(resps[d.first]) /\ resps[d.first].status_code # 500)
              => /\ d.kind = "raise"
                 /\ d.value = HTTPError(resps[d.first])
                 /\ d.last = d.first
           /\ d.last > d.first <=> resps[d.first].status_code = 500
    /\ (~IsNone(frame) /\ frame.op = "execute")
       => (Len(wire) > frame.first => resps[frame.first].status_code = 500)

C4_Witness ==
    \E d \in Completed("execute") :
        /\ resps[d.first].status_code = 404
        /\ d.kind = "raise"
        /\ d.last = d.first

\* C5 as stated: createfile returns True only on 200 and raises on every
\* other status.
C5_CreatefileRaisesOnEveryOtherStatus ==
    \A d \in Completed("createfile") :
        /\ (d.kind = "return" /\ d.value.py = "bool" /\ d.value.v)
           => resps[d.first].status_code = 200
        /\ resps[d.first].status_code # 200 => d.kind = "raise"

\* C5 amended: createfile returns True exactly on 200, raises the HTTP error
\* exactly on a 4xx or 5xx status, and on any other status returns None.
C5_CreatefileTrueRaiseOrNone ==
    \A d \in Completed("createfile") :
        LET resp == resps[d.first]
        IN /\ d.last = d.first
           /\ resp.status_code = 200 => (d.kind = "return" /\ d.value = PyTrue)
           /\ resp.status_code \in 400..599
              => (d.kind = "raise" /\ d.value = HTTPError(resp))
           /\ (resp.status_code # 200 /\ resp.status_code \notin 400..599)
              => (d.kind = "return" /\ d.value = None)

C5_Witness ==
    \E d \in Completed("createfile") :
        /\ resps[d.first].status_code = 204
        /\ d.kind = "return"
        /\ d.value = None

\* C6: execute answered 500 and then a failure, and download_file answered
\* 404 twice, raise the second failure after exactly two requests; neither
\* method ever sends a third request.
C6_SecondFailurePropagates ==
    /\ \A d \in Completed("execute") :
           /\ d.last <= d.first + 1
           /\ (resps[d.first].status_code = 500 /\ d.last = d.first + 1
               /\ Failure(resps[d.last]))
              => (d.kind = "raise" /\ d.value = HTTPError(resps[d.last]))
           /\ (resps[d.first].status_code = 500) => d.last = d.first + 1
    /\ \A d \in Completed("download_file") :
           /\ d.last <= d.first + 1
           /\ resps[d.first].status_code = 404
              => /\ d.last = d.first + 1
                 /\ resps[d.last].status_code = 404
                    => (d.kind = "raise" /\ d.value = HTTPError(resps[d.last]))
    /\ ~IsNone(frame) => Len(wire) <= frame.first + 1

C6_Witness ==
    /\ \E d \in Completed("download_file") :
           /\ resps[d.first].status_code = 404
           /\ d.last = d.first + 1
           /\ resps[d.last].status_code = 404
           /\ d.kind = "raise"

\* C7: download_file whose first response is a failure other than 404 raises
\* it after one request, and one whose first response is 200 returns that
\* response's bytes after one request.
C7_DownloadFirstResponse ==
    \A d \in Completed("download_file") :
        /\ (Failure(resps[d.first]) /\ resps[d.first].status_code # 404)
           => /\ d.kind = "raise"
              /\ d.value = HTTPError(resps[d.first])
              /\ d.last = d.first
        /\ resps[d.first].status_code = 200
           => /\ d.kind = "return"
              /\ d.value = PyBytes(resps[d.first].content)
              /\ d.last = d.first

C7_Witness ==
    \E d \in Completed("download_file") :
        /\ resps[d.first].status_code = 503
        /\ d.kind = "raise"
        /\ d.last = d.first

\* C8: a call of the token provider acquires a token if and only if none is
\* cached or the cached one expires less than 5 minutes after the call;
\* otherwise it returns the cached token and leaves the cache as it was.
C8_RefreshIffWithinWindow ==
    ~IsNone(tokcall) =>
        LET acquired == acquisitions > tokcall.before
            due == \/ IsNone(tokcall.cached)
                   \/ tokcall.cached.expires_on - tokcall.at < 5
        IN /\ acquired <=> due
           /\ acquired => /\ acquisitions = tokcall.before + 1
                          /\ access_token.token = tokcall.returned
           /\ ~acquired => /\ access_token = tokcall.cached
                           /\ tokcall.returned = tokcall.cached.token

C8_Witness ==
    /\ ~IsNone(tokcall)
    /\ ~IsNone(tokcall.cached)
    /\ tokcall.cached.expires_on - tokcall.at = 4
    /\ acquisitions = tokcall.before + 1

\* C9: every request carries a token that, when the request is sent, does not
\* expire within the 5-minute refresh window.
C9_NoRequestWithinRefreshWindow ==
    \A i \in 1..Len(wire) :
        wire[i].token_expires_on - wire[i].sent_at >= 5

\* C10: in _run, a generate request for scene S follows a create request that
\* uploaded S.py and was answered 200; when createfile raises or does not
\* return True, no generate request is sent.
C10_UploadPrecedesExecution ==
    InRunCall =>
        /\ \A i \in Generates :
               \E j \in 1..(i - 1) :
                   /\ wire[j].request.url.path = "manim/create"
                   /\ resps[j].status_code = 200
                   /\ \E k \in 1..Len(wire[j].request.payload) :
                          LET p == wire[j].request.payload
                              S == SubSeq(p, 1, k)
                          IN /\ SubSeq(p, k + 1, k + 4) = DotPy \o Newline
                             /\ wire[i].request.payload.command = GenerateCommand(S)
        /\ \A d \in Completed("createfile") :
               ~(d.kind = "return" /\ d.value.py = "bool" /\ d.value.v)
               => Generates = {}

C10_Witness ==
    /\ InRunCall
    /\ Generates # {}
    /\ \E d \in Completed("_run") : d.kind = "return"

\* C14: when createfile succeeds and execute returns a response, _run returns
\* the response's output field if its status is "success" and its message
\* field otherwise, with the response beside it.
C14_RunMapsStatusToText ==
    \A d \in Completed("_run") : \A e \in Completed("execute") :
        (d.kind = "return" /\ e.kind = "return")
        => LET content == resps[e.last].content
               response == d.value.v[2]
           IN /\ response = e.value
              /\ d.value.v[1] = IF response.v.status = "success"
                                THEN PyStr(response.v.output)
                                ELSE PyStr(response.v.message)
              /\ content = JsonSuccess => d.value.v[1] = PyStr("ok")
              /\ content = JsonError => d.value.v[1] = PyStr("boom")

C14_Witness ==
    \E d \in Completed("_run") : \E c \in Completed("createfile") :
        /\ c.kind = "return"
        /\ resps[c.first].status_code = 200
        /\ d.kind = "return"
        /\ d.value.v[1] = PyStr("ok")

\* C16: with no endpoint configured, createfile, execute and download_file
\* raise the configuration error at once: no request is sent, none is retried.
C16_NoEndpointNoRequest ==
    clients[1].pool_management_endpoint = ""
    => /\ wire = <<>>
       /\ resps = <<>>
       /\ IsNone(frame)
       /\ \A i \in 1..Len(done) :
              done[i].op \in {"createfile", "execute", "download_file"}
              => /\ done[i].kind = "raise"
                 /\ done[i].value.py = "ValueError"
                 /\ done[i].first > done[i].last

C16_Witness ==
    /\ clients[1].pool_management_endpoint = ""
    /\ \E i \in 1..Len(done) :
           /\ done[i].op = "download_file"
           /\ done[i].kind = "raise"
           /\ done[i].value.py = "ValueError"

\* C19: every normal return of _run yields a pair (resultText, rawResult).
C19_RunReturnsPair ==
    \A i \in 1..Len(done) :
        (done[i].op = "_run" /\ done[i].kind = "return")
        => done[i].value.py = "tuple"

\* C17: for a text holding N fenced code blocks, extract_markdown_code_blocks
\* returns N blocks in the order of the text, each with the code written
\* between its fences.
C17_ExtractsEveryBlockVerbatim ==
    (sample.py = "markdown" /\ ~IsNone(extracted))
    => LET blocks == SelectSeq(sample.doc, LAMBDA part : part.kind = "block")
       IN /\ Len(extracted.v) = Len(blocks)
          /\ \A i \in 1..Len(blocks) : extracted.v[i].code = blocks[i].code

\* C18 as stated: for a code holding a class declaration the search returns
\* the declared name (the first one declared), and None when the code holds
\* no declaration.
C18_ReturnsDeclaredName ==
    (sample.py = "code" /\ ~IsNone(extracted))
    => LET decls == SelectSeq(sample.doc, LAMBDA line : line.kind = "class")
       IN IF decls # <<>> THEN extracted.v = PyStr(decls[1].name)
          ELSE IsNone(extracted.v)

\* C18 amended: the search returns the identifier after the first occurrence
\* of `class` and whitespace anywhere in the text, in a declaration or not,
\* and None when the text holds no such occurrence.
C18_ReturnsFirstOccurrence ==
    (sample.py = "code" /\ ~IsNone(extracted))
    => LET occurrences ==
               SelectSeq(sample.doc, LAMBDA line : line.kind \in {"class", "comment"})
       IN IF occurrences # <<>> THEN extracted.v = PyStr(occurrences[1].name)
          ELSE IsNone(extracted.v)

C18_Witness ==
    /\ sample.py = "code"
    /\ ~IsNone(extracted)
    /\ Len(sample.doc) = 2
    /\ sample.doc[1].kind = "comment"
    /\ sample.doc[2].kind = "class"
    /\ extracted.v = PyStr(<<"x">>)


(***************************************************************************)
(* Properties of the chat front-end, checked under SpecApp.                *)
(***************************************************************************)
\* the handler h waits for the session pool to answer a request
InFlight(h) == handlers[h].pc \in {"tool", "downloading"}

\* the text s holds the keyword class, whitespace, and a word character
HasClassPattern(s) ==
    \E i \in 1..Len(s), j \in 1..Len(s) :
        /\ i + 4 <= Len(s)
        /\ SubSeq(s, i, i + 4) = ClassKeyword
        /\ j > i + 5
        /\ \A k \in (i + 5)..(j - 1) : s[k] \in Whitespace
        /\ s[j] \in WordChars

\* the handler h has run or checked a code with no class declaration
NoClassCase(h) ==
    /\ ~IsNone(handlers[h].python_code)
    /\ ~HasClassPattern(handlers[h].python_code.v)

\* C11: two chat handlers that each have a request in flight have it against
\* different session identifiers.
C11_OneInFlightPerIdentifier ==
    \A h1 \in HandlerIds, h2 \in HandlerIds :
        (/\ h1 # h2
         /\ handlers[h1].kind = "message" /\ InFlight(h1)
         /\ handlers[h2].kind = "message" /\ InFlight(h2))
        => handlers[h1].frame.request.url.query
               # handlers[h2].frame.request.url.query

\* C12: a handler whose generation response holds no fenced code block ends
\* by returning a descriptive result, without raising and without a request.
C12_NoBlockDescriptiveResult ==
    \A h \in HandlerIds :
        (~IsNone(handlers[h].generation) /\ handlers[h].generation.blocks = 0)
        => /\ handlers[h].pc = "returned"
           /\ handlers[h].result.py = "str"
           /\ handlers[h].sent = <<>>

\* C13: when the code holds no match for class <Identifier>, _run and
\* exec_step end by returning "No class name found in the code": no
\* exception, and no create, generate or get_video request.
C13_NoClassNameResult ==
    \A h \in HandlerIds :
        NoClassCase(h)
        => /\ handlers[h].pc = "returned"
           /\ handlers[h].result = PyStr("No class name found in the code")
           /\ handlers[h].sent = <<>>

C13_Witness ==
    \E h1 \in HandlerIds, h2 \in HandlerIds :
        /\ handlers[h1].kind = "message" /\ NoClassCase(h1)
        /\ handlers[h2].kind = "tool" /\ NoClassCase(h2)
        /\ handlers[h1].result = PyStr("No class name found in the code")
        /\ handlers[h2].result = PyStr("No class name found in the code")

\* C15: a handler sends a get_video request only after _run returned the
\* result of an execution whose status is success.
C15_DownloadOnlyAfterSuccess ==
    \A h \in HandlerIds :
        (\E i \in 1..Len(handlers[h].sent) :
             handlers[h].sent[i] = PathOf("download_file"))
        => /\ handlers[h].ran.kind = "return"
           /\ handlers[h].ran.value.py = "tuple"
           /\ Get(handlers[h].ran.value.v[2], "status") = PyStr("success")

====
